---- MODULE Spec2Model ----
(***************************************************************************)
(* The media pipeline of civic_tool/civilian/views.py: the report_issue    *)
(* handler, save_uploaded_file_temp and the video duration prober          *)
(* _get_video_duration_seconds, as one sequential state machine.  One      *)
(* request is handled to completion before the next one starts (the        *)
(* handler is synchronous and shares nothing but the database and the      *)
(* filesystem with other requests).                                        *)
(*                                                                         *)
(* Numbers that are floats in the code (durations) are exact rationals     *)
(* [n, d] here; an Optional value carries a tag ("None" / "num").          *)
(***************************************************************************)
EXTENDS Integers, Sequences, FiniteSets, TLC

(* ------------------------------ bounds --------------------------------- *)
MaxRequests == 1
MaxChunks == 2
MaxSamples == 2

(* ------------------------- program constants --------------------------- *)
MaxVideoSeconds == 6
SizeEstimateLimit == 10
\* a bitrate of 10^6 bytes per second
BytesPerSecondDecimal == 1000 * 1000
\* `1024 * 1024`
BytesPerSecond == 1024 * 1024

(* ----------------------------- rationals ------------------------------- *)
Rat(n, d) == [tag |-> "num", n |-> n, d |-> d]
NoneDuration == [tag |-> "None", n |-> 0, d |-> 1]
Unset == [tag |-> "unset", n |-> 0, d |-> 1]
IsNum(x) == x.tag = "num"
\* x > k and x <= k for a rational x with a positive denominator
RatGT(x, k) == x.n > k * x.d
RatLE(x, k) == x.n <= k * x.d

(* --------------------------- request inputs ---------------------------- *)
\* raw text of a form field: empty, blank, or text with surrounding blanks
Texts == {<<>>, <<" ">>, <<"a", " ">>}
Methods == {"GET", "POST"}
\* declared content types of an upload, as token sequences
ContentTypes ==
    { <<>>, <<"video", "/", "mp4">>, <<"video", "/", "webm">>,
      <<"video", "/", "avi">>, <<"application", "/", "octet-stream">> }
ImageContentTypes == { <<"image", "/", "png">>, <<"text", "/", "plain">> }
Sizes == {0, 6291456, 6291457, 10485760, 10485761}
Severities == {"low", "medium", "high", "critical"}
\* durations a decoding backend can report
Durations == {Rat(0, 1), Rat(6, 1), Rat(13, 2)}
FrameCounts == {0, 180}
FrameRates == {0, 30}
\* box counts the detector can report
BoxCounts == {0, 1}

NoFile == [present |-> FALSE, content_type |-> <<>>, nchunks |-> 0, pos |-> 0]
Upload(ct, n) == [present |-> TRUE, content_type |-> ct, nchunks |-> n, pos |-> 0]
VideoUploads == {Upload(ct, n) : ct \in ContentTypes, n \in 1..MaxChunks}
NoForm == [title |-> <<>>, category |-> <<>>, description |-> <<>>, location |-> <<>>]
NoCap == [opened |-> FALSE, frame_count |-> 0, fps |-> 0]
NoPath == <<"none", 0>>
NoResult == [tag |-> "None", boxes |-> 0, severity |-> "none", annotated_output |-> NoPath]

VARIABLES
    pc,             \* position of the handler / the prober
    reqNo,          \* number of requests started
    reports,        \* the IssueReport table
    tmpfiles,       \* temporary files that exist on disk
    form,           \* title, category, description, location after strip()
    image_file,     \* request.FILES.get("image") is present (a one-chunk upload)
    video_file,     \* request.FILES.get("video"), with its stream position
    result,         \* the detector's result dict
    gate_duration,  \* report_issue's local `duration`
    response,       \* the response returned by the handler
    exc,            \* the function an unhandled exception escaped from
    duration,       \* the prober's local `duration`
    file_extension, \* the prober's local `file_extension`
    method,         \* the strategy the prober is in (1..4)
    size_read,      \* the value uploaded_file.size gave at line 97
    cap,            \* strategy 3's capture: isOpened(), frame_count, fps
    detected,       \* history: the uploads the detector was run on, in order
    attempted,      \* history: strategies entered, in order
    produced,       \* history: <<strategy, value>> of every duration produced
    raised,         \* history: the strategy last left ended in its except clause
    read_from       \* history: per copy, the stream position when chunks() was
                    \* called and the position its first read took place at

vars == <<pc, reqNo, reports, tmpfiles, form, image_file, video_file, result,
          gate_duration, response, exc, duration, file_extension, method,
          size_read, cap, detected, attempted, produced, raised, read_from>>

locals == <<form, image_file, video_file, result, detected>>
proberLocals == <<duration, file_extension, method, size_read, cap>>
history == <<attempted, produced, raised, read_from>>

(* ------------------------------ helpers -------------------------------- *)
RECURSIVE LStrip(_)
LStrip(s) == IF s # <<>> /\ Head(s) = " " THEN LStrip(Tail(s)) ELSE s

RECURSIVE RStrip(_)
RStrip(s) ==
    IF s # <<>> /\ s[Len(s)] = " " THEN RStrip(SubSeq(s, 1, Len(s) - 1)) ELSE s

\* str.strip()
Strip(s) == RStrip(LStrip(s))

\* `sub in content_type`
Contains(ct, sub) == \E i \in 1..Len(ct) : ct[i] = sub

\* content_type.startswith(kind + "/")
StartsWith(ct, kind) == Len(ct) >= 2 /\ ct[1] = kind /\ ct[2] = "/"

\* the bytes of an upload of n chunks, and what a read of `got` chunks from
\* position `start` yields
UploadData(n) == [i \in 1..n |-> i]
ReadChunks(start, got) == [i \in 1..got |-> start + i]

TmpFile(id, kind, suffix, data) ==
    [id |-> id, kind |-> kind, suffix |-> suffix, data |-> data]

Init ==
    /\ pc = "idle"
    /\ reqNo = 0
    /\ reports = <<>>
    /\ tmpfiles = {}
    /\ form = NoForm
    /\ image_file = FALSE
    /\ video_file = NoFile
    /\ result = NoResult
    /\ gate_duration = Unset
    /\ response = "none"
    /\ exc = "none"
    /\ duration = NoneDuration
    /\ file_extension = "none"
    /\ method = 0
    /\ size_read = -1
    /\ cap = NoCap
    /\ detected = <<>>
    /\ attempted = <<>>
    /\ produced = <<>>
    /\ raised = FALSE
    /\ read_from = <<>>


(* ------------------------- report_issue: entry ------------------------- *)
\* a check of the title alone
RequiredMissingTitleOnly(title, category, description, location) ==
    title = <<>>

\* `not (title and category and description and location)`
RequiredMissing(title, category, description, location) ==
    ~(title # <<>> /\ category # <<>> /\ description # <<>> /\ location # <<>>)

\* the handler returns `resp`; nothing else changes
Return(resp) ==
    /\ pc' = "done"
    /\ response' = resp

ReportIssueBegin ==
    /\ pc = "idle"
    /\ reqNo < MaxRequests
    /\ reqNo' = reqNo + 1
    /\ \E m \in Methods, t \in Texts, c \in Texts, d \in Texts, l \in Texts,
          img \in BOOLEAN, vid \in {NoFile} \cup VideoUploads :
         IF m # "POST"
           THEN /\ Return("form")
                /\ UNCHANGED locals
           ELSE IF RequiredMissing(Strip(t), Strip(c), Strip(d), Strip(l))
             THEN /\ Return("error_required")
                  /\ UNCHANGED locals
             ELSE /\ form' = [title |-> Strip(t), category |-> Strip(c),
                              description |-> Strip(d), location |-> Strip(l)]
                  /\ image_file' = img
                  /\ video_file' = vid
                  /\ pc' = "media"
                  /\ UNCHANGED <<result, detected, response>>
    /\ UNCHANGED <<reports, tmpfiles, gate_duration, exc, proberLocals, history>>

(* ----------------------- save_uploaded_file_temp ----------------------- *)
\* a read that starts wherever the stream is
ReadStartCurrent(pos) == pos

\* uploaded_file.chunks() starts its read at the beginning of the stream
\* whatever the current position is (django.core.files.base.File.chunks
\* seeks to 0 before its first read)

ReadStart(pos) == 0

\* NamedTemporaryFile(delete=False): the file outlives the `with` block
KeepTemp(files, id) == files

\* a NamedTemporaryFile whose deletion on leaving the block is skipped
CloseTempLeak(files, id) == files

\* NamedTemporaryFile(delete=True): leaving the `with` block deletes the file
CloseTemp(files, id) == {f \in files : f.id # id}

\* the temp file written from an upload of which `got` chunks were copied
\* before the copy ended (fewer than all: chunks() or write() raised)
save_uploaded_file_temp(got) ==
    KeepTemp(tmpfiles \cup {TmpFile(<<reqNo, 0>>, "upload", "name_ext",
                                    ReadChunks(ReadStart(0), got))},
             <<reqNo, 0>>)

\* an exception leaves the handler unhandled
Unhandled(from) ==
    /\ exc' = from
    /\ Return("exception")

SaveImageTemp ==
    /\ pc = "media"
    /\ image_file
    /\ \E got \in 0..1 :
         /\ tmpfiles' = save_uploaded_file_temp(got)
         /\ IF got < 1
              THEN Unhandled("save_uploaded_file_temp")
              ELSE pc' = "detect" /\ UNCHANGED <<response, exc>>
    /\ UNCHANGED <<reqNo, reports, locals, gate_duration, proberLocals, history>>

SaveVideoTemp ==
    /\ pc = "media"
    /\ ~image_file
    /\ video_file.present
    /\ \E got \in 0..video_file.nchunks :
         /\ tmpfiles' = save_uploaded_file_temp(got)
         /\ video_file' = [video_file EXCEPT !.pos = ReadStart(video_file.pos) + got]
         /\ IF got < video_file.nchunks
              THEN Unhandled("save_uploaded_file_temp")
              ELSE pc' = "detect" /\ UNCHANGED <<response, exc>>
    /\ UNCHANGED <<reqNo, reports, form, image_file, result, detected,
                   gate_duration, proberLocals, history>>

NoMedia ==
    /\ pc = "media"
    /\ ~image_file
    /\ ~video_file.present
    /\ Return("redirect_view_reports")
    /\ UNCHANGED <<reqNo, reports, tmpfiles, locals, gate_duration, exc,
                   proberLocals, history>>

(* --------------------------- the detector ------------------------------ *)
\* what detect_pothole_severity can do with a file: fail, or return a
\* result dict whose annotated output is a new file in output_folder
detect_pothole_severity(output_folder) ==
    { [tag |-> e, boxes |-> 0, severity |-> "none",
       annotated_output |-> <<"none", 0>>] : e \in {"DecodeError", "ModelUnavailable"} }
    \cup
    { [tag |-> "ok", boxes |-> b, severity |-> s,
       annotated_output |-> <<output_folder, reqNo>>] :
         b \in BoxCounts, s \in Severities }

\* a handler without the discard rule
DiscardNever(res) == FALSE

\* `result['boxes'] == 0`

Discard(res) == res.boxes = 0

\* a duration validation skipped when an image came with the video
AfterDetectVideoOnly ==
    IF video_file.present /\ ~image_file THEN "p_enter" ELSE "create"

\* `if video_file:` at the duration validation
AfterDetect == IF video_file.present THEN "p_enter" ELSE "create"

Detected(out) ==
    IF out.tag # "ok"
      THEN /\ Unhandled("detect_pothole_severity")
           /\ UNCHANGED result
      ELSE /\ result' = out
           /\ exc' = exc
           /\ IF Discard(out)
                THEN Return("redirect_view_reports")
                ELSE pc' = AfterDetect /\ response' = response

DetectImage ==
    /\ pc = "detect"
    /\ image_file
    /\ detected' = Append(detected, "image")
    /\ \E out \in detect_pothole_severity("ann_images") : Detected(out)
    /\ UNCHANGED <<reqNo, reports, tmpfiles, form, image_file, video_file,
                   gate_duration, proberLocals, history>>

DetectVideo ==
    /\ pc = "detect"
    /\ ~image_file
    /\ video_file.present
    /\ detected' = Append(detected, "video")
    /\ \E out \in detect_pothole_severity("ann_videos") : Detected(out)
    /\ UNCHANGED <<reqNo, reports, tmpfiles, form, image_file, video_file,
                   gate_duration, proberLocals, history>>


(* -------------------- _get_video_duration_seconds ---------------------- *)
\* the suffix of the strategies' temp files, from the declared content type
FileExtension(ct) ==
    IF ct # <<>>
      THEN IF Contains(ct, "mp4") THEN ".mp4"
           ELSE IF Contains(ct, "webm") THEN ".webm"
           ELSE IF Contains(ct, "avi") THEN ".avi"
           ELSE ".webm"
      ELSE ".webm"

\* a prober without the outer handler
OuterExceptPropagates == "raise"

\* the outer `except Exception`: the prober returns None

OuterExcept == "return None"

\* an exception outside the strategies' own try blocks
ProbeAborted ==
    IF OuterExcept = "return None"
      THEN /\ gate_duration' = NoneDuration
           /\ pc' = "gate"
           /\ UNCHANGED <<response, exc>>
      ELSE /\ Unhandled("_get_video_duration_seconds")
           /\ UNCHANGED gate_duration

\* lines 15-32: rewind, then pick the suffix; seek() or an attribute of the
\* upload may raise
ProbeEnter ==
    /\ pc = "p_enter"
    /\ \E fault \in {"none", "seek", "content_type"} :
         /\ video_file' = IF fault = "seek" THEN video_file
                          ELSE [video_file EXCEPT !.pos = 0]
         /\ IF fault = "none"
              THEN /\ duration' = NoneDuration
                   /\ file_extension' = FileExtension(video_file.content_type)
                   /\ method' = 1
                   /\ pc' = "m_copy"
                   /\ UNCHANGED <<gate_duration, response, exc>>
              ELSE /\ ProbeAborted
                   /\ UNCHANGED <<duration, file_extension, method>>
    /\ UNCHANGED <<reqNo, reports, tmpfiles, form, image_file, result,
                   detected, size_read, cap, history>>

\* the cascade without its `if duration is None:` guards
NextStrategyAlways(k, d) == k + 1

\* the cascade given up after strategy 2
NextStrategyAbort(k, d) == IF IsNum(d) \/ k = 2 THEN 5 ELSE k + 1

\* the `if duration is None:` guards in front of strategies 2, 3 and 4:
\* the strategy entered after strategy k (5: none, the prober returns)

NextStrategy(k, d) == IF IsNum(d) THEN 5 ELSE k + 1

PcOf(m) == IF m \in 1..3 THEN "m_copy" ELSE IF m = 4 THEN "m4" ELSE "p_return"

\* control leaves strategy `method` with the prober's duration being d
LeaveStrategy(d) ==
    /\ method' = NextStrategy(method, d)
    /\ pc' = PcOf(NextStrategy(method, d))

\* the copy loop `for chunk in uploaded_file.chunks(): tmp.write(chunk)`,
\* having read `got` chunks from position `start`
CopyLoop(start, got) == ReadChunks(start, got)

\* the first half of strategies 1-3: import the library, create the temp
\* file, copy the upload into it, flush, rewind the upload
TempCopy ==
    /\ pc = "m_copy"
    /\ attempted' = Append(attempted, method)
    /\ \E imported \in BOOLEAN :
         IF ~imported
           THEN /\ raised' = TRUE
                /\ LeaveStrategy(duration)
                /\ UNCHANGED <<tmpfiles, video_file, read_from>>
           ELSE LET start == ReadStart(video_file.pos)
                    id == <<reqNo, method>>
                IN \E got \in 0..MaxChunks, fault \in {"none", "copy", "seek"} :
                     /\ start + got <= video_file.nchunks
                     /\ fault # "copy" => start + got = video_file.nchunks
                     /\ read_from' = Append(read_from, [called_at |-> video_file.pos,
                                                       start |-> start])
                     /\ LET tmp == TmpFile(id, "probe", file_extension,
                                           CopyLoop(start, got))
                        IN IF fault = "none"
                             THEN /\ tmpfiles' = tmpfiles \cup {tmp}
                                  /\ video_file' = [video_file EXCEPT !.pos = 0]
                                  /\ pc' = "m_decode"
                                  /\ raised' = FALSE
                                  /\ UNCHANGED method
                             ELSE /\ tmpfiles' = CloseTemp(tmpfiles \cup {tmp}, id)
                                  /\ video_file' =
                                       [video_file EXCEPT !.pos = start + got]
                                  /\ raised' = TRUE
                                  /\ LeaveStrategy(duration)
    /\ UNCHANGED <<reqNo, reports, form, image_file, result, detected,
                   gate_duration, response, exc, duration, file_extension,
                   size_read, cap, produced>>

\* what a strategy's decoding step does to the prober: it sets `duration` to
\* v (or leaves it), may raise, and leaves the `with` block either way
Decoded(v, sets, raises) ==
    /\ duration' = IF sets THEN v ELSE duration
    /\ produced' = IF sets THEN Append(produced, [k |-> method, value |-> v])
                   ELSE produced
    /\ raised' = raises
    /\ tmpfiles' = CloseTemp(tmpfiles, <<reqNo, method>>)
    /\ LeaveStrategy(IF sets THEN v ELSE duration)
    /\ UNCHANGED <<reqNo, reports, locals, gate_duration, response, exc,
                   file_extension, size_read, attempted, read_from>>

\* `clip.duration is not None and clip.duration > 0`
MoviePyAccepts(v) == IsNum(v) /\ RatGT(v, 0)

\* strategy 1: VideoFileClip(tmp.name) raises, or reports clip.duration;
\* closing the clip may raise after the duration was read
MoviePyDecode ==
    /\ pc = "m_decode"
    /\ method = 1
    /\ \E opens \in BOOLEAN, v \in {NoneDuration} \cup Durations,
          closeRaises \in BOOLEAN :
         IF ~opens
           THEN Decoded(v, FALSE, TRUE)
           ELSE Decoded(v, MoviePyAccepts(v), closeRaises)
    /\ UNCHANGED cap

\* the streams ffmpeg.probe can report
Stream(kind, dur) == [codec_type |-> kind, duration |-> dur]
Absent == [tag |-> "absent", n |-> 0, d |-> 1]
NotANumber == [tag |-> "N/A", n |-> 0, d |-> 1]
Streams ==
    {Stream("audio", Absent)} \cup
    {Stream("video", x) : x \in {Absent, NotANumber} \cup Durations}
Probes ==
    {<<>>} \cup {<<a>> : a \in Streams} \cup
    {<<Stream("audio", Absent), b>> : b \in Streams} \cup
    {<<Stream("video", Absent), b>> : b \in Streams}

\* next((stream for stream in probe['streams'] if stream['codec_type'] == 'video'), None)
RECURSIVE FirstVideo(_)
FirstVideo(streams) ==
    IF streams = <<>> THEN Stream("none", Absent)
    ELSE IF Head(streams).codec_type = "video" THEN Head(streams)
    ELSE FirstVideo(Tail(streams))

\* `duration_info and 'duration' in duration_info`
FFmpegAccepts(info) == info.codec_type = "video" /\ info.duration.tag # "absent"

\* strategy 2: ffmpeg.probe raises, or reports streams; float() of a
\* duration that is no number raises
FFmpegDecode ==
    /\ pc = "m_decode"
    /\ method = 2
    /\ \E probes \in BOOLEAN, probe \in Probes :
         LET info == FirstVideo(probe)
         IN IF ~probes
              THEN Decoded(NoneDuration, FALSE, TRUE)
              ELSE IF FFmpegAccepts(info)
                THEN IF IsNum(info.duration)
                       THEN Decoded(info.duration, TRUE, FALSE)
                       ELSE Decoded(NoneDuration, FALSE, TRUE)
                ELSE Decoded(NoneDuration, FALSE, FALSE)
    /\ UNCHANGED cap

\* the test with the frame rate alone
OpenCVAcceptsFpsOnly(frame_count, fps) == fps > 0

\* `fps > 0 and frame_count > 0`
OpenCVAccepts(frame_count, fps) == fps > 0 /\ frame_count > 0

\* strategy 3: cv2.VideoCapture raises, does not open, or reports a frame
\* count and a frame rate; release() may raise
OpenCVDecode ==
    /\ pc = "m_decode"
    /\ method = 3
    /\ \E outcome \in {"raise", "closed", "opened"}, frame_count \in FrameCounts,
          fps \in FrameRates, releaseRaises \in BOOLEAN :
         IF outcome = "raise"
           THEN Decoded(NoneDuration, FALSE, TRUE) /\ UNCHANGED cap
         ELSE IF outcome = "closed"
           THEN Decoded(NoneDuration, FALSE, FALSE) /\ UNCHANGED cap
         ELSE /\ cap' = [opened |-> TRUE, frame_count |-> frame_count,
                         fps |-> fps]
              /\ IF OpenCVAccepts(frame_count, fps)
                   THEN Decoded(Rat(frame_count, fps), TRUE, releaseRaises)
                   ELSE Decoded(NoneDuration, FALSE, releaseRaises)

\* the range test with `< 10` for `<= 10`
SizeAcceptsExclusive(size) ==
    /\ RatGT(Rat(size, BytesPerSecond), 0)
    /\ RatLE(Rat(size, BytesPerSecond), SizeEstimateLimit)
    /\ size # SizeEstimateLimit * BytesPerSecond

\* `estimated_duration > 0 and estimated_duration <= 10`, the estimate being
\* size / (1024 * 1024)
SizeAccepts(size) ==
    /\ RatGT(Rat(size, BytesPerSecond), 0)
    /\ RatLE(Rat(size, BytesPerSecond), SizeEstimateLimit)

\* strategy 4: the size-based estimate; reading the size may raise
SizeEstimate ==
    /\ pc = "m4"
    /\ attempted' = Append(attempted, 4)
    /\ \E readable \in BOOLEAN, size \in Sizes :
         IF ~readable
           THEN /\ raised' = TRUE
                /\ UNCHANGED <<duration, produced, size_read>>
           ELSE /\ size_read' = size
                /\ duration' = IF SizeAccepts(size)
                                 THEN Rat(size, BytesPerSecond) ELSE duration
                /\ produced' =
                     IF SizeAccepts(size)
                       THEN Append(produced,
                                   [k |-> 4, value |-> Rat(size, BytesPerSecond)])
                       ELSE produced
                /\ raised' = FALSE
    /\ method' = 5
    /\ pc' = "p_return"
    /\ cap' = NoCap
    /\ UNCHANGED <<reqNo, reports, tmpfiles, locals, gate_duration, response,
                   exc, file_extension, read_from>>

\* `return duration`, received by report_issue; the released capture is
\* out of scope
ProbeReturn ==
    /\ pc = "p_return"
    /\ gate_duration' = duration
    /\ pc' = "gate"
    /\ cap' = NoCap
    /\ UNCHANGED <<reqNo, reports, tmpfiles, locals, response, exc,
                   duration, file_extension, method, size_read, history>>


(* ------------------- report_issue: the duration gate ------------------- *)
\* the gate with `>= 6.0`
DurationGateInclusive(d) ==
    IF ~IsNum(d) THEN "accept"
    ELSE IF ~RatLE(d, MaxVideoSeconds) \/ d.n = MaxVideoSeconds * d.d THEN "reject"
    ELSE "accept"

\* the gate rejecting an unknown duration
DurationGateStrict(d) ==
    IF ~IsNum(d) THEN "reject"
    ELSE IF RatGT(d, MaxVideoSeconds) THEN "reject"
    ELSE "accept"

\* `if duration is None: ... elif duration > 6.0: reject ... else: ...`
DurationGate(d) ==
    IF ~IsNum(d) THEN "accept"
    ELSE IF RatGT(d, MaxVideoSeconds) THEN "reject"
    ELSE "accept"

\* the prober's frame is gone once its caller goes on
ProberFrameDropped ==
    /\ duration' = NoneDuration
    /\ file_extension' = "none"
    /\ method' = 0
    /\ size_read' = -1
    /\ cap' = NoCap
    /\ attempted' = <<>>
    /\ produced' = <<>>
    /\ raised' = FALSE
    /\ read_from' = <<>>

Gate ==
    /\ pc = "gate"
    /\ IF DurationGate(gate_duration) = "reject"
         THEN Return("error_duration")
         ELSE pc' = "create" /\ UNCHANGED response
    /\ ProberFrameDropped
    /\ UNCHANGED <<reqNo, reports, tmpfiles, locals, gate_duration, exc>>

(* --------------------- report_issue: the try block --------------------- *)
\* a row created with the model's default severity
NewReportDefaultSeverity ==
    [id |-> Len(reports) + 1, req |-> reqNo,
     title |-> form.title, category |-> form.category,
     description |-> form.description, location |-> form.location,
     severity |-> "medium", status |-> "pending",
     image |-> FALSE, video |-> FALSE,
     annotated_image |-> NoPath, annotated_video |-> NoPath]

\* the row IssueReport.objects.create inserts; status takes its default
NewReport ==
    [id |-> Len(reports) + 1, req |-> reqNo,
     title |-> form.title, category |-> form.category,
     description |-> form.description, location |-> form.location,
     severity |-> result.severity, status |-> "pending",
     image |-> FALSE, video |-> FALSE,
     annotated_image |-> NoPath, annotated_video |-> NoPath]

\* issue.save(update_fields=[...]): the stored row takes the named fields
\* from the instance and keeps the others
SaveFields(row, instance, update_fields) ==
    [f \in DOMAIN row |-> IF f \in update_fields THEN instance[f] ELSE row[f]]

\* lines 323-364: create the row, then attach the image and the video;
\* create() or save() may raise, which the handler catches
CreateReport ==
    /\ pc = "create"
    /\ \E fault \in {"none", "create", "save_image", "save_video"},
          image_type \in ImageContentTypes :
         LET row == NewReport
             issueImage == [row EXCEPT !.image = TRUE,
                                       !.annotated_image = result.annotated_output]
             imageBad == image_file /\ ~StartsWith(image_type, "image")
             videoBad == video_file.present
                         /\ ~StartsWith(video_file.content_type, "video")
             issue == IF image_file THEN issueImage ELSE row
             afterImage == IF image_file
                             THEN SaveFields(row, issueImage, {"image"})
                             ELSE row
             issueVideo == [issue EXCEPT !.video = TRUE,
                                         !.annotated_video = result.annotated_output]
             afterVideo == IF video_file.present
                             THEN SaveFields(afterImage, issueVideo, {"video"})
                             ELSE afterImage
         IN IF fault = "create"
              THEN Return("error_create") /\ UNCHANGED reports
            ELSE IF imageBad
              THEN /\ reports' = Append(reports, row)
                   /\ Return("error_image_type")
            ELSE IF image_file /\ fault = "save_image"
              THEN /\ reports' = Append(reports, row)
                   /\ Return("error_create")
            ELSE IF videoBad
              THEN /\ reports' = Append(reports, afterImage)
                   /\ Return("error_video_type")
            ELSE IF video_file.present /\ fault = "save_video"
              THEN /\ reports' = Append(reports, afterImage)
                   /\ Return("error_create")
            ELSE /\ reports' = Append(reports, afterVideo)
                 /\ Return("redirect_view_reports")
    /\ UNCHANGED <<reqNo, tmpfiles, locals, gate_duration, exc, proberLocals,
                   history>>

\* the response is sent; the request's locals are gone
Respond ==
    /\ pc = "done"
    /\ pc' = "idle"
    /\ form' = NoForm
    /\ image_file' = FALSE
    /\ video_file' = NoFile
    /\ result' = NoResult
    /\ detected' = <<>>
    /\ gate_duration' = Unset
    /\ response' = "none"
    /\ exc' = "none"
    /\ ProberFrameDropped
    /\ UNCHANGED <<reqNo, reports, tmpfiles>>

Next ==
    \/ ReportIssueBegin
    \/ SaveImageTemp
    \/ SaveVideoTemp
    \/ NoMedia
    \/ DetectImage
    \/ DetectVideo
    \/ ProbeEnter
    \/ TempCopy
    \/ MoviePyDecode
    \/ FFmpegDecode
    \/ OpenCVDecode
    \/ SizeEstimate
    \/ ProbeReturn
    \/ Gate
    \/ CreateReport
    \/ Respond

Spec == Init /\ [][Next]_vars

(* ------------------- the administrator and sample data ----------------- *)
\* IssueReport.STATUS_CHOICES
StatusChoices == {"pending", "in_progress", "resolved", "closed"}
\* `random.choice(['pending', 'in_progress', 'resolved'])`
SampleStatuses == {"pending", "in_progress", "resolved"}
\* the severities of sample_reports, in the order of the list
SampleSeverities ==
    <<"high", "medium", "medium", "critical", "high", "critical", "high",
      "high", "medium", "critical", "low", "medium", "medium", "high", "low">>
\* values of the POST parameter `status`: absent or empty, a declared
\* choice, or any other text
StatusInputs == StatusChoices \cup {"", "escalated"}

\* the row create_sample_data inserts for entry k of sample_reports
SampleRow(k, status) ==
    [id |-> Len(reports) + k, req |-> 0,
     title |-> <<"a">>, category |-> <<"a">>,
     description |-> <<"a">>, location |-> <<"a">>,
     severity |-> SampleSeverities[k], status |-> status,
     image |-> FALSE, video |-> FALSE,
     annotated_image |-> NoPath, annotated_video |-> NoPath]

\* the tables create_sample_data can leave: one row per entry of
\* sample_reports (the first MaxSamples of them), each with a status drawn
\* at random
create_sample_data ==
    { reports \o [k \in 1..MaxSamples |-> SampleRow(k, st[k])] :
        st \in [1..MaxSamples -> SampleStatuses] }

\* area_risk_heatmap: fills an empty table with the sample data
AreaRiskHeatmap ==
    /\ pc = "idle"
    /\ IF Len(reports) = 0
         THEN reports' \in create_sample_data
         ELSE UNCHANGED reports
    /\ UNCHANGED <<pc, reqNo, tmpfiles, locals, gate_duration, response, exc,
                   proberLocals, history>>

\* manage_reports: a POST with a report id and a status stores the status
\* on that report; get_object_or_404 or save() raising is caught
ManageReports ==
    /\ pc = "idle"
    /\ \E m \in Methods, report_id \in 0..(Len(reports) + 1),
          new_status \in StatusInputs, saveRaises \in BOOLEAN :
         IF m = "POST" /\ report_id # 0 /\ new_status # ""
            /\ report_id <= Len(reports) /\ ~saveRaises
           THEN reports' = [reports EXCEPT ![report_id].status = new_status]
           ELSE UNCHANGED reports
    /\ UNCHANGED <<pc, reqNo, tmpfiles, locals, gate_duration, response, exc,
                   proberLocals, history>>

NextAdmin ==
    \/ Next
    \/ AreaRiskHeatmap
    \/ ManageReports

SpecAdmin == Init /\ [][NextAdmin]_vars



(* ------------------------------ claims --------------------------------- *)
NoReportOfRequest == \A i \in 1..Len(reports) : reports[i].req # reqNo

ProbeFiles == {f \in tmpfiles : f.kind = "probe"}

\* C1: whenever the detector's result has a box count of 0, the request ends
\* with a redirect to the view-reports page and has created no IssueReport.
C1_ZeroBoxesDiscarded ==
    (result.tag = "ok" /\ result.boxes = 0) =>
        /\ pc = "done"
        /\ response = "redirect_view_reports"
        /\ NoReportOfRequest

C1_Witness ==
    /\ pc = "done"
    /\ result.tag = "ok" /\ result.boxes = 0
    /\ image_file /\ video_file.present
    /\ response = "redirect_view_reports"

\* C2: once the gate has acted on the prober's estimate, an estimate above
\* 6.0 s has ended the request with the duration error and no IssueReport,
\* and an estimate of 6.0 s or less has not been rejected by the gate.
C2_DurationGate ==
    (pc \in {"create", "done"} /\ IsNum(gate_duration)) =>
        IF gate_duration.n > 6 * gate_duration.d
          THEN pc = "done" /\ response = "error_duration" /\ NoReportOfRequest
          ELSE response # "error_duration"

C2_Witness ==
    /\ pc = "done"
    /\ IsNum(gate_duration) /\ gate_duration.n > 6 * gate_duration.d
    /\ response = "error_duration"

\* C3: a step of the gate on an Unknown (None) duration goes on to report
\* creation without a response and without touching the table, which is
\* also what a step on a duration of at most 6.0 s does.
C3_UnknownAccepted ==
    [][ (pc = "gate" /\ (gate_duration.tag = "None"
                          \/ (IsNum(gate_duration)
                              /\ gate_duration.n <= 6 * gate_duration.d)))
        => (pc' = "create" /\ response' = response /\ reports' = reports) ]_vars

C3_Witness ==
    /\ pc = "create"
    /\ gate_duration.tag = "None"
    /\ video_file.present

\* C4: the strategies are entered in the order 1, 2, 3, 4; at most one of
\* them produces a duration; once one has, no later strategy is entered (no
\* later temp file, no later read) and the prober returns that value.
C4_OrderedShortCircuit ==
    /\ \A i \in 1..Len(attempted) : attempted[i] = i
    /\ Len(read_from) <= Len(attempted)
    /\ Len(produced) <= 1
    /\ produced # <<>> =>
         /\ attempted # <<>>
         /\ attempted[Len(attempted)] = produced[1].k
         /\ duration = produced[1].value
         /\ \A f \in ProbeFiles : f.id[2] <= produced[1].k
         /\ pc = "gate" => gate_duration = produced[1].value

C4_Witness ==
    /\ pc = "gate"
    /\ attempted = <<1, 2>>
    /\ produced # <<>> /\ produced[1].k = 2
    /\ gate_duration = produced[1].value

\* C5: when strategy k (1..3) ends in its except clause without a duration,
\* wherever in it the exception was raised, control is at the start of
\* strategy k+1, and the step taken from the start of a strategy enters it.
C5_FailureContinues ==
    [][ /\ (pc \in {"m_copy", "m_decode"} /\ raised' /\ ~IsNum(duration'))
           => /\ method' = method + 1
              /\ pc' = IF method + 1 = 4 THEN "m4" ELSE "m_copy"
        /\ (pc \in {"m_copy", "m4"}) => attempted' = Append(attempted, method) ]_vars

C5_Witness ==
    /\ pc = "m_decode"
    /\ method = 3
    /\ attempted = <<1, 2, 3>>
    /\ Len(read_from) = 3
    /\ read_from[3].called_at > 0

\* C6: no exception escapes the prober, and what it returns is None exactly
\* when no strategy produced a duration.
C6_NeverRaises ==
    /\ exc # "_get_video_duration_seconds"
    /\ pc = "gate" =>
         /\ gate_duration.tag \in {"None", "num"}
         /\ gate_duration.tag = "None" <=> produced = <<>>

C6_Witness ==
    /\ pc = "gate"
    /\ attempted = <<>>
    /\ gate_duration.tag = "None"

\* C7 as stated: when none of the three decoding backends produced a
\* duration, the prober returns None whatever the size of the upload.
C7_UnknownWhateverSize ==
    (pc = "gate" /\ attempted = <<1, 2, 3, 4>>) => gate_duration.tag = "None"

\* C7 amended: when none of the three decoding backends produced a
\* duration, the prober returns None only if the size cannot be read, is 0
\* or exceeds 10485760 bytes; otherwise it returns size / 1048576 seconds.
C7_UnknownUnlessSizeEstimate ==
    (pc = "gate" /\ attempted = <<1, 2, 3, 4>>) =>
        IF size_read <= 0 \/ size_read > 10485760
          THEN gate_duration.tag = "None"
          ELSE gate_duration = Rat(size_read, 1048576)

C7_Witness ==
    /\ pc = "gate"
    /\ attempted = <<1, 2, 3, 4>>
    /\ size_read = 6291457
    /\ gate_duration = Rat(6291457, 1048576)

C9_ProbeTempsDeleted ==
    \A f \in ProbeFiles : pc = "m_decode" /\ f.id = <<reqNo, method>>

C9_Witness ==
    /\ pc = "gate"
    /\ attempted = <<1, 2, 3, 4>>
    /\ raised
    /\ ProbeFiles = {}

\* C10: when a request has completed, no temp file exists.
C10_NoTempAfterRequest ==
    pc \in {"done", "idle"} => tmpfiles = {}

\* the error pages report_issue renders
ErrorPages ==
    {"error_required", "error_duration", "error_image_type",
     "error_video_type", "error_create"}

\* the rows the current request has created
RowsOfRequest == {i \in 1..Len(reports) : reports[i].req = reqNo}

\* C11: when the detector call fails, the handler's response is a
\* user-facing rejection message and no IssueReport is persisted.
C11_DetectorFailureRendered ==
    exc = "detect_pothole_severity" =>
        /\ response \in ErrorPages
        /\ NoReportOfRequest

\* C12: every report persisted with an image (resp. a video) stores, in
\* annotated_image (resp. annotated_video), the annotated output path the
\* detector returned in that request.
C12_AnnotatedStored ==
    pc = "done" =>
        \A i \in RowsOfRequest :
            /\ reports[i].image =>
                   reports[i].annotated_image = result.annotated_output
            /\ reports[i].video =>
                   reports[i].annotated_video = result.annotated_output

C14_SizeEstimateRange ==
    (4 \in {attempted[i] : i \in 1..Len(attempted)} /\ size_read # -1) =>
        LET fromSize == {produced[i].value :
                            i \in {j \in 1..Len(produced) : produced[j].k = 4}}
        IN /\ IF size_read = 0 \/ size_read > 10485760
                THEN fromSize = {}
                ELSE fromSize = {Rat(size_read, 1048576)}
           /\ size_read = 10485760 =>
                  \A v \in fromSize : v.n = 10 * v.d

C14_Witness ==
    /\ pc = "gate"
    /\ size_read = 10485760
    /\ produced = <<[k |-> 4, value |-> Rat(10485760, 1048576)]>>
    /\ gate_duration = Rat(10485760, 1048576)

\* the durations strategy 3 has produced
ByFrames ==
    {produced[i].value : i \in {j \in 1..Len(produced) : produced[j].k = 3}}

\* C15 as stated: whenever the capture opens and reports a frame count and
\* a positive frame rate, the frame-counting strategy yields
\* frame_count / frame_rate, for every frame count including 0.
C15_FramesOverRate ==
    (cap.opened /\ cap.fps > 0) =>
        ByFrames = {Rat(cap.frame_count, cap.fps)}

\* C15 amended: when the capture opens, the frame-counting strategy yields
\* frame_count / frame_rate if the frame count and the frame rate are both
\* positive, and no duration otherwise (a frame count of 0 included).
C15_FramesOverRateBothPositive ==
    cap.opened =>
        IF cap.fps > 0 /\ cap.frame_count > 0
          THEN ByFrames = {Rat(cap.frame_count, cap.fps)}
          ELSE ByFrames = {}

C15_Witness ==
    /\ cap.opened
    /\ cap.frame_count = 180
    /\ cap.fps = 30
    /\ duration = Rat(180, 30)
    /\ pc = "p_return"

\* C16: a POST with the four required text fields and neither an image nor
\* a video creates an IssueReport.
C16_MediaOptional ==
    (pc = "done" /\ form # NoForm /\ ~image_file /\ ~video_file.present) =>
        RowsOfRequest # {}

\* C17: whenever report_issue responds with an error page, no IssueReport
\* created during that request remains persisted.
C17_ErrorLeavesNoReport ==
    (pc = "done" /\ response \in ErrorPages) => RowsOfRequest = {}

\* C18: every duration the prober returns that is not None is strictly
\* positive, whichever strategy produced it.
C18_ReturnedPositive ==
    (pc = "gate" /\ IsNum(gate_duration)) => RatGT(gate_duration, 0)

\* C19: after any sequence of report_issue, create_sample_data and
\* manage_reports operations, every persisted IssueReport has a status among
\* STATUS_CHOICES and a severity among SEVERITY_CHOICES.
C19_ChoicesRespected ==
    \A i \in 1..Len(reports) :
        /\ reports[i].status \in StatusChoices
        /\ reports[i].severity \in Severities

\* C20: when a request carries both an image and a video, the detector runs
\* once, on the image only; the discard rule and the report's severity
\* follow the image's result, and no report is created before the video has
\* passed the duration gate.
C20_ImageClassifiedVideoGated ==
    (image_file /\ video_file.present) =>
        /\ detected \in {<<>>, <<"image">>}
        /\ pc \in {"p_enter", "m_copy", "m_decode", "m4", "p_return", "gate",
                   "create"} => detected = <<"image">>
        /\ result.tag = "ok" => result.annotated_output[1] = "ann_images"
        /\ (result.tag = "ok" /\ result.boxes = 0) =>
               pc = "done" /\ RowsOfRequest = {}
        /\ \A i \in RowsOfRequest : reports[i].severity = result.severity
        /\ (pc = "create" \/ RowsOfRequest # {}) =>
               /\ gate_duration # Unset
               /\ DurationGate(gate_duration) = "accept"
               /\ ~(IsNum(gate_duration) /\ RatGT(gate_duration, MaxVideoSeconds))

C20_Witness ==
    /\ pc = "done"
    /\ image_file
    /\ video_file.present
    /\ detected = <<"image">>
    /\ RowsOfRequest # {}
    /\ IsNum(gate_duration)

\* a form field that is empty once its surrounding blanks are removed
Blank(text) == \A i \in 1..Len(text) : text[i] = " "

\* what the current request has done besides answering: temp files it wrote,
\* detector and prober invocations, rows it created
SideEffects ==
    \/ \E f \in tmpfiles : f.id[1] = reqNo
    \/ detected # <<>>
    \/ attempted # <<>>
    \/ read_from # <<>>
    \/ RowsOfRequest # {}

\* C21: a POST in which title, category, description or location is empty
\* after trimming has no side effect (no temp file, no detector or prober
\* invocation, no IssueReport) and is answered with the form and an error;
\* only a request whose four fields are all non-blank goes any further.
C21_MissingFieldNoEffect ==
    /\ response = "error_required" =>
           /\ pc = "done"
           /\ form = NoForm
           /\ ~SideEffects
    /\ (pc \notin {"idle", "done"} \/ (pc = "done" /\ SideEffects)) =>
           /\ ~Blank(form.title)
           /\ ~Blank(form.category)
           /\ ~Blank(form.description)
           /\ ~Blank(form.location)

C21_Witness ==
    /\ pc = "done"
    /\ response = "error_required"
    /\ reqNo = 1
    /\ tmpfiles = {}
    /\ reports = <<>>
    /\ detected = <<>>
    /\ attempted = <<>>

====
